---- MODULE Spec2Model ----
(***************************************************************************)
(* Model of stackwalk.c: stack unwinding (jl_unw_stepn over the unwind     *)
(* backends), bounded and growable backtrace capture, the backtrace        *)
(* snapshot (jl_bt_data / jl_bt_size) and its readers, and the lookup of   *)
(* code addresses.                                                         *)
(*                                                                         *)
(* A thread is a program counter pc[t] walking through the C functions;    *)
(* every label is a place in the source between two accesses to shared     *)
(* state (jl_in_stackwalk, jl_bt_data, jl_bt_size) or around a call into   *)
(* the platform unwinder.                                                  *)
(***************************************************************************)
EXTENDS Integers, Sequences, FiniteSets, TLC

\* ------------------------------------------------------------- bounds
MaxDepth == 4        \* deepest stack a context may have
MaxCap == 3          \* largest maxsize a caller passes to bounded capture
MaxIncr == 2         \* largest growth increment (maxincr) of growable capture
GrowDepth == 10      \* deepest stack walked by growable capture
ConcDepth == 2       \* deepest stack in the two-thread specification
ConcCap == 2         \* largest maxsize in the two-thread specification
SnapDepth == 2       \* deepest stack in the one-thread snapshot specification
MaxBt == 2           \* largest snapshot (frames stored in jl_bt_data)
MaxGen == 1          \* repopulations in the one-thread snapshot specification
RaceDepth == 3       \* deepest stack a repopulation walks beside a reader
RaceGen == 2         \* repopulations beside a reader
CbDepth == 2         \* deepest stack walked while the callbacks are observed
CbCap == 1           \* largest maxsize of that walk
PeerDepth == 1       \* depth and maxsize of the walk running beside it

Threads == {1, 2}

\* The unwind backend is fixed when the file is compiled (#if at lines 139,
\* 140, 283, 289, 309).
Backends == {"libunwind", "libosxunwind", "win64", "win32", "arm"}

IsWindows(b) == b \in {"win64", "win32"}
HasSafeRestore(b) == ~IsWindows(b)

\* A slot of a buffer that nothing has been stored to.
Uninit == -1
\* The instruction pointer a cursor holds after popping a frame that was not
\* frame-pointer based (line 261-263 reads whatever the stack holds there).
JunkIp == 7

\* The frames of thread t's stack, innermost first: frame p has these registers.
FrameIp(t, p) == IF p = 0 THEN JunkIp ELSE 1000 * t + 10 * p
FrameSp(t, p) == IF p = 0 THEN JunkIp + 1 ELSE 1000 * t + 10 * p + 4

VARIABLES
    backend,                    \* which #if branch was compiled
    jl_in_stackwalk,            \* process-wide flag (Windows)
    needsSymRefreshModuleList,  \* line 196
    hSymRefreshModuleList,      \* line 197: whether the function pointer is set
    jl_bt_data, jl_bt_size,     \* the snapshot
    history,                    \* every snapshot that was completely stored
    pc,                         \* per thread: place in the code
    call,                       \* per thread: the entry point called and its inputs
    cursor,                     \* per thread: the frame the unwind cursor denotes
    n,                          \* per thread: jl_unw_stepn's n / its return value
    start,                      \* per thread: cursor at entry of jl_unw_stepn
    nsteps,                     \* per thread: jl_unw_step calls made by this call
    ip, sp,                     \* per thread: the output buffers
    offset,                     \* per thread: jl_backtrace_from_here's offset
    ret,                        \* per thread: value returned to the caller
    jl_safe_restore, old_buf,   \* per thread: the fault guard and its saved value
    frames,                     \* per thread: what jl_getFunctionInfo returned
    rs,                         \* per thread: the descriptors built for the caller
    gc_safe,                    \* per thread: inside jl_gc_safe_enter/leave
    out,                        \* per thread: the lines jl_safe_printf wrote
    freed,                      \* per thread: the pointers passed to free()
    served,                     \* per thread: the lookups made, address and answer
    cbs                         \* per thread: the resolution callbacks invoked

globals == <<backend, jl_in_stackwalk, needsSymRefreshModuleList,
             hSymRefreshModuleList, jl_bt_data, jl_bt_size, history>>
locals == <<pc, call, cursor, n, start, nsteps, ip, sp, offset, ret,
            jl_safe_restore, old_buf>>
lookups == <<frames, rs, gc_safe, out, freed, served>>
lk == <<lookups, cbs>>
vars == <<globals, locals, lk>>

\* ------------------------------------------------------------ helpers
Min(a, b) == IF a < b THEN a ELSE b
Max(a, b) == IF a > b THEN a ELSE b
Fill(k, v) == [i \in 1..k |-> v]
Store(buf, i, v) == IF i \in DOMAIN buf THEN [buf EXCEPT ![i] = v] ELSE buf

NoCall ==
    [kind |-> "none", maxsize |-> 0, depth |-> 0, evAt |-> 0, evKind |-> "none",
     rv |-> 0, lookup |-> "rtl", returnsp |-> FALSE, maxincr |-> 1,
     data |-> "caller", base |-> 0, addr |-> 0, skipC |-> FALSE]

\* What the platform does during one walk: the stack has `depth` frames, the
\* platform's init primitive returns rv, and at step evAt the event evKind
\* happens:
\*   fault  an invalid memory read while unwinding the step's frame
\*   regip  unw_get_reg(UNW_REG_IP) < 0      regsp  unw_get_reg(UNW_REG_SP) < 0
\*   stop   the backend cannot resolve the frame (missing unwind metadata)
\* lookup (win64): where the function entries of the stack's code are found:
\*   rtl  RtlLookupFunctionEntry,  sym  only the Sym* debug service,
\*   fpo  nowhere (frame-pointer based code).
\* lookup (win32): what answers JuliaGetModuleBase64:
\*   rtl  HistoryTable or jl_getUnwindInfo,  sym  only the Sym* debug service.
EventKinds(b) ==
    CASE b \in {"libunwind", "libosxunwind"} -> {"fault", "regip", "regsp", "stop"}
      [] b \in {"win64", "win32"} -> {"fault", "stop"}
      [] OTHER -> {}

Lookups(b) ==
    CASE b = "win64" -> {"rtl", "sym", "fpo"}
      [] b = "win32" -> {"rtl", "sym"}
      [] OTHER -> {"rtl"}

Envs(b, maxDepth) ==
    { [depth |-> d, evAt |-> a, evKind |-> k, rv |-> r, lookup |-> l] :
        d \in 1..maxDepth, a \in 0..maxDepth, k \in EventKinds(b) \cup {"none"},
        r \in {0, 1}, l \in Lookups(b) }

EnvOk(e) == /\ (e.evKind = "none") = (e.evAt = 0)
            /\ e.evAt <= e.depth

Crashed == \E t \in Threads : pc[t] \in {"crashed", "assert_failed"}

Undisturbed(c) == c.evKind = "none"

snapshot == <<jl_bt_data, jl_bt_size, history>>
winstate == <<jl_in_stackwalk, needsSymRefreshModuleList>>
config == <<backend, hSymRefreshModuleList>>
guard == <<jl_safe_restore, old_buf>>
bufs == <<ip, sp>>

Set(f, t, v) == [f EXCEPT ![t] = v]

IsBounded(k) == k \in {"rec_backtrace_ctx", "rec_backtrace", "rec_backtrace_ctx_dwarf"}
IsGrowable(k) == k = "jl_backtrace_from_here"
IsCapture(k) == IsBounded(k) \/ IsGrowable(k)

\* ------------------------------------------------- the platform unwinder
\* unw_init_local / unw_init_local_dwarf / StackWalk64 return rv.
\* jl_unw_init, lines 292-295 (libunwind), 286 (arm), 225-226 (win64),
\* 220-223 (win32: the result of the first StackWalk64).
UnwInitOk(b, rv) ==
    CASE b \in {"libunwind", "libosxunwind"} -> rv = 0
      [] b = "arm" -> FALSE
      [] b = "win64" -> TRUE
      [] b = "win32" -> rv # 0

\* jl_unw_init_dwarf, lines 310-313.
UnwInitDwarfOk(rv) == rv # 0

InitOk(b, c) ==
    IF c.kind = "rec_backtrace_ctx_dwarf" THEN UnwInitDwarfOk(c.rv) ELSE UnwInitOk(b, c.rv)

\* unw_step / StackWalk64 on the frame at position p: "more" (a caller frame
\* exists, the cursor moves to it), "zero" (no further frame) or "fault".
unw_step(c, p) ==
    IF c.evAt = p /\ c.evKind = "fault" THEN "fault"
    ELSE IF c.evAt = p /\ c.evKind = "stop" THEN "zero"
    ELSE IF p >= 1 /\ p < c.depth THEN "more"
    ELSE "zero"

\* jl_unw_step of the backends that step in one call: which outputs it stores
\* before it returns, and what it returns.
\* libunwind, lines 297-307; win32, lines 234-238; arm, line 287.
UnwStep(b, c, p) ==
    CASE b \in {"libunwind", "libosxunwind"} ->
            IF c.evAt = p /\ c.evKind = "regip"
            THEN [wip |-> FALSE, wsp |-> FALSE, res |-> "zero"]
            ELSE IF c.evAt = p /\ c.evKind = "regsp"
            THEN [wip |-> TRUE, wsp |-> FALSE, res |-> "zero"]
            ELSE [wip |-> TRUE, wsp |-> TRUE, res |-> unw_step(c, p)]
      [] b = "win32" -> [wip |-> TRUE, wsp |-> TRUE, res |-> unw_step(c, p)]
      [] OTHER -> [wip |-> FALSE, wsp |-> FALSE, res |-> "zero"]

\* One invocation of a resolution callback: which one, the value of
\* jl_in_stackwalk it was entered with, whether RtlLookupFunctionEntry
\* answered, whether the debug service was called, whether something was
\* returned.
Callback(cb, flag, hit, service, found) ==
    [cb |-> cb, flag |-> flag, hit |-> hit, service |-> service, found |-> found]

\* x86_64 callbacks, lines 156-160 and 176-180: the debug service is called
\* when the Rtl tables have no entry and the flag is clear.
CallsService_unguarded(hit, flag) == ~hit
CallsService(hit, flag) == ~hit /\ ~flag

\* The callbacks StackWalk64 makes on the 32-bit build (lines 220-221 and
\* 236-237) for the frame at p: JuliaFunctionTableAccess64 hands the address
\* to SymFunctionTableAccess64 (line 165); JuliaGetModuleBase64 answers from
\* HistoryTable or jl_getUnwindInfo (lines 185-191) or else hands it to
\* SymGetModuleBase64 (line 192).
StackWalk64Callbacks(flag, p, cached) ==
    { Callback("JuliaFunctionTableAccess64", flag, FALSE, TRUE, p >= 1),
      Callback("JuliaGetModuleBase64", flag, cached, ~cached, p >= 1) }

\* RtlLookupFunctionEntry (lines 155, 175) finds an entry for frame p.
RtlHit(c, p) == p >= 1 /\ c.lookup = "rtl"
\* SymGetModuleBase64 (line 181) resolves the module of frame p.
SymBase(c, p) == p >= 1 /\ ~(c.evAt = p /\ c.evKind = "stop")
\* SymFunctionTableAccess64 (line 161) finds a function entry for frame p.
SymFn(c, p) == p >= 1 /\ c.lookup = "sym"

\* ------------------------------------------------------- jl_unw_stepn
\* line 42: the loop's capacity test.
AtCapacity_late(k, maxsize) == k > maxsize
AtCapacity(k, maxsize) == k >= maxsize
\* line 50: the count after the loop.
AfterLoop_noinc(k) == k
AfterLoop(k) == k + 1
\* line 58: the recovery path backs off one frame.
BackOff_none(k) == k
BackOff(k) == IF k > 0 THEN k - 1 ELSE k
\* lines 63, 162, 182, 204, 222: jl_in_stackwalk = 0.
ClearFlag_kept(cur) == cur
ClearFlag(cur) == FALSE
\* line 60: jl_safe_restore = old_buf.
RestoreGuard_skipped(cur, old) == cur
RestoreGuard(cur, old) == old
\* line 46: the slot a step stores to, as an index from 1 into the buffer.
Slot(off, k) == off + k + 1

\* ----------------------------------------------------- bounded capture
\* line 76 (and 322): the count returned to the caller.
CapReturn_raw(k, maxsize) == k
CapReturn_late(k, maxsize) == IF k > maxsize + 1 THEN maxsize ELSE k
CapReturn(k, maxsize) == IF k > maxsize THEN maxsize ELSE k

\* ---------------------------------------------------- growable capture
\* line 113: another chunk is needed.
MoreChunks_ge(k, maxincr) == k >= maxincr
MoreChunks(k, maxincr) == k > maxincr
\* lines 114-115: jl_array_del_end(a, maxincr - n).
TrimCount(k, maxincr) == maxincr - k
DelEnd(a, dec) == IF dec >= 0 /\ dec <= Len(a) THEN SubSeq(a, 1, Len(a) - dec) ELSE a

\* ================================================================ Init
Init ==
    /\ backend \in Backends
    /\ jl_in_stackwalk = FALSE
    /\ needsSymRefreshModuleList \in BOOLEAN
    /\ hSymRefreshModuleList \in BOOLEAN
    /\ (~IsWindows(backend) => ~needsSymRefreshModuleList /\ ~hSymRefreshModuleList)
    /\ jl_bt_data = Fill(MaxBt, 0)
    /\ jl_bt_size = 0
    /\ history = << <<>> >>
    /\ pc = [t \in Threads |-> "idle"]
    /\ call = [t \in Threads |-> NoCall]
    /\ cursor = [t \in Threads |-> 0]
    /\ n = [t \in Threads |-> 0]
    /\ start = [t \in Threads |-> 0]
    /\ nsteps = [t \in Threads |-> 0]
    /\ ip = [t \in Threads |-> <<>>]
    /\ sp = [t \in Threads |-> <<>>]
    /\ offset = [t \in Threads |-> 0]
    /\ ret = [t \in Threads |-> 0]
    /\ jl_safe_restore \in [Threads -> {"NULL", "outer"}]
    /\ (IsWindows(backend) => jl_safe_restore = [t \in Threads |-> "NULL"])
    /\ old_buf = [t \in Threads |-> "NULL"]
    /\ frames = [t \in Threads |-> <<>>]
    /\ rs = [t \in Threads |-> <<>>]
    /\ gc_safe = [t \in Threads |-> FALSE]
    /\ out = [t \in Threads |-> <<>>]
    /\ freed = [t \in Threads |-> <<>>]
    /\ served = [t \in Threads |-> <<>>]
    /\ cbs = [t \in Threads |-> {}]

\* ====================================================== entry points
\* A caller enters a capture function: the locals of lines 71-72, 81-83,
\* 90-104 are set up; the caller's buffer of maxsize slots holds nothing yet.
EnterCapture(t, kind, maxsize, e, returnsp, data) ==
    /\ pc[t] = "idle"
    /\ ~Crashed
    /\ call' = Set(call, t,
          [kind |-> kind, maxsize |-> maxsize, depth |-> e.depth, evAt |-> e.evAt,
           evKind |-> e.evKind, rv |-> e.rv, lookup |-> e.lookup,
           returnsp |-> returnsp, maxincr |-> maxsize, data |-> data,
           base |-> IF data = "jl_bt_data" THEN 100 * Len(history) ELSE 0,
           addr |-> 0, skipC |-> FALSE])
    /\ pc' = Set(pc, t, "init")
    /\ ip' = Set(ip, t, IF IsGrowable(kind) \/ data = "jl_bt_data" THEN <<>>
                        ELSE Fill(maxsize, Uninit))
    /\ sp' = Set(sp, t, <<>>)
    /\ cursor' = Set(cursor, t, 0)
    /\ n' = Set(n, t, 0)
    /\ start' = Set(start, t, 0)
    /\ nsteps' = Set(nsteps, t, 0)
    /\ offset' = Set(offset, t, 0)
    /\ ret' = Set(ret, t, 0)
    /\ UNCHANGED <<lk, globals, guard>>

\* The walks explored: when init fails the rest of the environment is unused.
WalkOk(kind, e) ==
    /\ EnvOk(e)
    /\ (~InitOk(backend, [kind |-> kind, rv |-> e.rv])
          => e.depth = 1 /\ e.evKind = "none" /\ e.lookup = "rtl")

\* rec_backtrace_ctx(data, maxsize, context), lines 68-77.
rec_backtrace_ctx(t, D, C) ==
    /\ pc[t] = "idle"
    /\ \E c \in 0..C, e \in Envs(backend, D) :
        /\ WalkOk("rec_backtrace_ctx", e)
        /\ EnterCapture(t, "rec_backtrace_ctx", c, e, FALSE, "caller")

\* rec_backtrace(data, maxsize), lines 79-85: the context is the caller's own.
rec_backtrace(t, D, C) ==
    /\ pc[t] = "idle"
    /\ \E c \in 0..C, e \in Envs(backend, D) :
        /\ WalkOk("rec_backtrace", e)
        /\ EnterCapture(t, "rec_backtrace", c, e, FALSE, "caller")

\* rec_backtrace_ctx_dwarf(data, maxsize, context), lines 314-323.
rec_backtrace_ctx_dwarf(t, D, C) ==
    /\ pc[t] = "idle"
    /\ backend = "libosxunwind"
    /\ \E c \in 0..C, e \in Envs(backend, D) :
        /\ WalkOk("rec_backtrace_ctx_dwarf", e)
        /\ EnterCapture(t, "rec_backtrace_ctx_dwarf", c, e, FALSE, "caller")

\* jl_backtrace_from_here(returnsp), lines 88-104; maxincr is line 100.
jl_backtrace_from_here(t, D, C) ==
    /\ pc[t] = "idle"
    /\ \E incr \in 1..C, e \in Envs(backend, D), rsp \in BOOLEAN :
        /\ WalkOk("jl_backtrace_from_here", e)
        /\ EnterCapture(t, "jl_backtrace_from_here", incr, e, rsp, "caller")

\* ======================================================== jl_unw_init
\* What the caller does with jl_unw_init's result: lines 73-75, 105-106,
\* 319-321.
AfterInit_ignored(ok, kind) == IF IsGrowable(kind) THEN "grow" ELSE "stepn_enter"
AfterInit(ok, kind) ==
    IF ~ok THEN "done" ELSE IF IsGrowable(kind) THEN "grow" ELSE "stepn_enter"

InitReturns(t, ok) ==
    /\ pc' = Set(pc, t, AfterInit(ok, call[t].kind))
    /\ cursor' = Set(cursor, t, IF ok THEN 1 ELSE cursor[t])
    /\ ret' = Set(ret, t, 0)

\* jl_unw_init / jl_unw_init_dwarf on the backends without shared state.
jl_unw_init(t) ==
    /\ pc[t] = "init"
    /\ ~Crashed
    /\ ~IsWindows(backend)
    /\ InitReturns(t, InitOk(backend, call[t]))
    /\ UNCHANGED <<lk, globals, call, n, start, nsteps, bufs, offset, guard>>

\* jl_unw_init on Windows, lines 201-202: the module list is refreshed under
\* the flag.
jl_unw_init_refresh(t) ==
    /\ pc[t] = "init"
    /\ ~Crashed
    /\ IsWindows(backend)
    /\ IF needsSymRefreshModuleList /\ hSymRefreshModuleList /\ ~jl_in_stackwalk
       THEN /\ jl_in_stackwalk' = TRUE
            /\ pc' = Set(pc, t, "init_refresh")
       ELSE /\ jl_in_stackwalk' = jl_in_stackwalk
            /\ pc' = Set(pc, t, "init_walk")
    /\ UNCHANGED <<lk, config, needsSymRefreshModuleList, snapshot, call, cursor, n,
                   start, nsteps, bufs, offset, ret, guard>>

\* lines 203-205: hSymRefreshModuleList returned.
jl_unw_init_refreshed(t) ==
    /\ pc[t] = "init_refresh"
    /\ ~Crashed
    /\ jl_in_stackwalk' = ClearFlag(jl_in_stackwalk)
    /\ needsSymRefreshModuleList' = FALSE
    /\ pc' = Set(pc, t, "init_walk")
    /\ UNCHANGED <<lk, config, snapshot, call, cursor, n, start, nsteps, bufs, offset,
                   ret, guard>>

\* lines 207-211 (win32: refuse when the flag is set, else set it and walk)
\* and 225-226 (win64).
jl_unw_init_walk(t) ==
    /\ pc[t] = "init_walk"
    /\ ~Crashed
    /\ IF backend = "win64"
       THEN /\ InitReturns(t, UnwInitOk(backend, call[t].rv))
            /\ UNCHANGED jl_in_stackwalk
       ELSE IF jl_in_stackwalk
       THEN /\ InitReturns(t, FALSE)
            /\ UNCHANGED jl_in_stackwalk
       ELSE /\ jl_in_stackwalk' = TRUE
            /\ pc' = Set(pc, t, "init_walking")
            /\ UNCHANGED <<cursor, ret>>
    /\ UNCHANGED <<lk, config, needsSymRefreshModuleList, snapshot, call, n, start,
                   nsteps, bufs, offset, guard>>

\* lines 220-223: StackWalk64 returned; the flag is cleared.
jl_unw_init_walked(t) ==
    /\ pc[t] = "init_walking"
    /\ ~Crashed
    /\ jl_in_stackwalk' = ClearFlag(jl_in_stackwalk)
    /\ cbs' = Set(cbs, t, cbs[t] \cup
                  StackWalk64Callbacks(jl_in_stackwalk, 1, call[t].lookup = "rtl"))
    /\ InitReturns(t, UnwInitOk(backend, call[t].rv))
    /\ UNCHANGED <<lookups, config, needsSymRefreshModuleList, snapshot, call, n, start,
                   nsteps, bufs, offset, guard>>

\* ======================================================= jl_unw_stepn
\* The buffer a capture stores to is the one its caller passed (the data
\* argument of lines 68 and 79, the arrays of lines 110-111).
DataOf_snapshot(c) == "jl_bt_data"
DataOf(c) == c.data

\* The store of line 46 (&ip[n], sp ? &sp[n] : &nullsp) for frame p.
StoreFrame(t, p, wip, wsp) ==
    /\ ip' = Set(ip, t, IF wip /\ DataOf(call[t]) = "caller"
                        THEN Store(ip[t], Slot(offset[t], n[t]), call[t].base + FrameIp(t, p))
                        ELSE ip[t])
    /\ jl_bt_data' = IF wip /\ DataOf(call[t]) = "jl_bt_data"
                     THEN Store(jl_bt_data, Slot(offset[t], n[t]), call[t].base + FrameIp(t, p))
                     ELSE jl_bt_data
    /\ sp' = Set(sp, t, IF wsp /\ call[t].returnsp
                        THEN Store(sp[t], Slot(offset[t], n[t]), FrameSp(t, p))
                        ELSE sp[t])

\* lines 29-40: n = 0; on win32 the flag is asserted clear and set; elsewhere
\* the fault guard is saved and installed.
jl_unw_stepn_enter(t) ==
    /\ pc[t] = "stepn_enter"
    /\ ~Crashed
    /\ n' = Set(n, t, 0)
    /\ start' = Set(start, t, cursor[t])
    /\ IF backend = "win32"
       THEN IF jl_in_stackwalk
            THEN /\ pc' = Set(pc, t, "assert_failed")
                 /\ UNCHANGED <<jl_in_stackwalk, guard>>
            ELSE /\ jl_in_stackwalk' = TRUE
                 /\ pc' = Set(pc, t, "loop")
                 /\ UNCHANGED guard
       ELSE /\ pc' = Set(pc, t, "loop")
            /\ UNCHANGED jl_in_stackwalk
            /\ IF HasSafeRestore(backend)
               THEN /\ old_buf' = Set(old_buf, t, jl_safe_restore[t])
                    /\ jl_safe_restore' = Set(jl_safe_restore, t, "buf")
               ELSE UNCHANGED guard
    /\ UNCHANGED <<lk, config, needsSymRefreshModuleList, snapshot, call, cursor,
                   nsteps, bufs, offset, ret>>

\* lines 42-45: out of space.
jl_unw_stepn_full(t) ==
    /\ pc[t] = "loop"
    /\ ~Crashed
    /\ AtCapacity(n[t], call[t].maxsize)
    /\ n' = Set(n, t, call[t].maxsize)
    /\ pc' = Set(pc, t, "post")
    /\ UNCHANGED <<lk, globals, call, cursor, start, nsteps, bufs, offset, ret, guard>>

\* What the loop does with jl_unw_step's result, lines 46-48, and where a
\* fault goes: to the recovery path where there is one (lines 38, 53).
StepReturns(t, res) ==
    /\ pc' = Set(pc, t, CASE res = "more" -> "loop"
                          [] res = "junk" -> "loop"
                          [] res = "zero" -> "post"
                          [] OTHER -> IF HasSafeRestore(backend) THEN "recover"
                                      ELSE "crashed")
    /\ n' = Set(n, t, IF res \in {"more", "junk"} THEN n[t] + 1 ELSE n[t])
    /\ cursor' = Set(cursor, t, CASE res = "more" -> cursor[t] + 1
                                  [] res = "junk" -> 0
                                  [] OTHER -> cursor[t])

\* lines 46-48 with jl_unw_step of libunwind (297-307), win32 (234-238) or
\* arm (287).
jl_unw_step(t) ==
    /\ pc[t] = "loop"
    /\ ~Crashed
    /\ backend # "win64"
    /\ ~AtCapacity(n[t], call[t].maxsize)
    /\ LET r == UnwStep(backend, call[t], cursor[t]) IN
        /\ StoreFrame(t, cursor[t], r.wip, r.wsp)
        /\ StepReturns(t, r.res)
    /\ nsteps' = Set(nsteps, t, nsteps[t] + 1)
    /\ cbs' = IF backend = "win32"
              THEN Set(cbs, t, cbs[t] \cup
                       StackWalk64Callbacks(jl_in_stackwalk, cursor[t],
                                            call[t].lookup = "rtl"))
              ELSE cbs
    /\ UNCHANGED <<lookups, config, winstate, jl_bt_size, history, call, start, offset,
                   ret, guard>>

\* win64, lines 240-244 with JuliaGetModuleBase64, lines 175-180: the
\* registers are stored, then the module base is looked up; a miss in the
\* Rtl tables goes to the debug service unless the flag is set.
jl_unw_step_win64(t) ==
    /\ pc[t] = "loop"
    /\ ~Crashed
    /\ backend = "win64"
    /\ ~AtCapacity(n[t], call[t].maxsize)
    /\ StoreFrame(t, cursor[t], TRUE, TRUE)
    /\ nsteps' = Set(nsteps, t, nsteps[t] + 1)
    /\ LET hit == RtlHit(call[t], cursor[t])
           service == CallsService(hit, jl_in_stackwalk)
       IN /\ IF hit
             THEN /\ pc' = Set(pc, t, "fta")
                  /\ UNCHANGED jl_in_stackwalk
             ELSE IF service
             THEN /\ jl_in_stackwalk' = TRUE
                  /\ pc' = Set(pc, t, "gmb_sym")
             ELSE /\ pc' = Set(pc, t, "post")
                  /\ UNCHANGED jl_in_stackwalk
          /\ cbs' = Set(cbs, t, cbs[t] \cup
                 {Callback("JuliaGetModuleBase64", jl_in_stackwalk, hit, service,
                           hit \/ (service /\ SymBase(call[t], cursor[t])))})
    /\ UNCHANGED <<lookups, config, needsSymRefreshModuleList, jl_bt_size, history, call,
                   cursor, n, start, offset, ret, guard>>

\* lines 181-183 and 243-244: SymGetModuleBase64 returned; the flag is cleared.
SymGetModuleBase64(t) ==
    /\ pc[t] = "gmb_sym"
    /\ ~Crashed
    /\ jl_in_stackwalk' = ClearFlag(jl_in_stackwalk)
    /\ pc' = Set(pc, t, IF SymBase(call[t], cursor[t]) THEN "fta" ELSE "post")
    /\ UNCHANGED <<lk, config, needsSymRefreshModuleList, snapshot, call, cursor, n,
                   start, nsteps, bufs, offset, ret, guard>>

\* JuliaFunctionTableAccess64, lines 155-160, called at line 246.
JuliaFunctionTableAccess64(t) ==
    /\ pc[t] = "fta"
    /\ ~Crashed
    /\ LET hit == RtlHit(call[t], cursor[t])
           service == CallsService(hit, jl_in_stackwalk)
       IN /\ IF hit
             THEN /\ pc' = Set(pc, t, "unwind_fe")
                  /\ UNCHANGED jl_in_stackwalk
             ELSE IF service
             THEN /\ jl_in_stackwalk' = TRUE
                  /\ pc' = Set(pc, t, "fta_sym")
             ELSE /\ pc' = Set(pc, t, "unwind_nofe")
                  /\ UNCHANGED jl_in_stackwalk
          /\ cbs' = Set(cbs, t, cbs[t] \cup
                 {Callback("JuliaFunctionTableAccess64", jl_in_stackwalk, hit, service,
                           hit \/ (service /\ SymFn(call[t], cursor[t])))})
    /\ UNCHANGED <<lookups, config, needsSymRefreshModuleList, snapshot, call, cursor, n,
                   start, nsteps, bufs, offset, ret, guard>>

\* lines 161-163: SymFunctionTableAccess64 returned; the flag is cleared.
SymFunctionTableAccess64(t) ==
    /\ pc[t] = "fta_sym"
    /\ ~Crashed
    /\ jl_in_stackwalk' = ClearFlag(jl_in_stackwalk)
    /\ pc' = Set(pc, t, IF SymFn(call[t], cursor[t]) THEN "unwind_fe" ELSE "unwind_nofe")
    /\ UNCHANGED <<lk, config, needsSymRefreshModuleList, snapshot, call, cursor, n,
                   start, nsteps, bufs, offset, ret, guard>>

\* lines 266-279: RtlVirtualUnwind with the function entry.
RtlVirtualUnwind(t) ==
    /\ pc[t] = "unwind_fe"
    /\ ~Crashed
    /\ StepReturns(t, unw_step(call[t], cursor[t]))
    /\ UNCHANGED <<lk, globals, call, start, nsteps, bufs, offset, ret, guard>>

\* lines 247-265 and 279: no function entry, the frame is taken to be
\* RBP-based.  VirtualQuery rejects an unreadable frame pointer.  For code
\* that is RBP-based the pops give the caller's frame; for other code they
\* give whatever the stack holds there.
NoFpoResults(c, p) ==
    IF c.lookup = "fpo"
    THEN {IF unw_step(c, p) = "fault" THEN "zero" ELSE unw_step(c, p)}
    ELSE {"zero", "junk"} \cup (IF p >= 1 /\ p < c.depth THEN {"more"} ELSE {})

UnwindNoFpo(t) ==
    /\ pc[t] = "unwind_nofe"
    /\ ~Crashed
    /\ \E res \in NoFpoResults(call[t], cursor[t]) : StepReturns(t, res)
    /\ UNCHANGED <<lk, globals, call, start, nsteps, bufs, offset, ret, guard>>

\* line 50: n++ after the loop.
jl_unw_stepn_post(t) ==
    /\ pc[t] = "post"
    /\ ~Crashed
    /\ n' = Set(n, t, AfterLoop(n[t]))
    /\ pc' = Set(pc, t, "stepn_exit")
    /\ UNCHANGED <<lk, globals, call, cursor, start, nsteps, bufs, offset, ret, guard>>

\* lines 53-59: the recovery path.
jl_unw_stepn_recover(t) ==
    /\ pc[t] = "recover"
    /\ ~Crashed
    /\ n' = Set(n, t, BackOff(n[t]))
    /\ pc' = Set(pc, t, "stepn_exit")
    /\ UNCHANGED <<lk, globals, call, cursor, start, nsteps, bufs, offset, ret, guard>>

\* lines 60-65: the guard is restored, on win32 the flag is cleared, n is
\* returned.
jl_unw_stepn_exit(t) ==
    /\ pc[t] = "stepn_exit"
    /\ ~Crashed
    /\ jl_safe_restore' = IF HasSafeRestore(backend)
                          THEN Set(jl_safe_restore, t,
                                   RestoreGuard(jl_safe_restore[t], old_buf[t]))
                          ELSE jl_safe_restore
    /\ jl_in_stackwalk' = IF backend = "win32" THEN ClearFlag(jl_in_stackwalk)
                        ELSE jl_in_stackwalk
    /\ pc' = Set(pc, t, "stepn_ret")
    /\ UNCHANGED <<lk, config, needsSymRefreshModuleList, snapshot, call, cursor, n,
                   start, nsteps, bufs, offset, ret, old_buf>>

\* ===================================================== bounded capture
\* lines 75-76 and 321-322: the count is capped at maxsize.
rec_backtrace_ctx_return(t) ==
    /\ pc[t] = "stepn_ret"
    /\ ~Crashed
    /\ IsBounded(call[t].kind)
    /\ ret' = Set(ret, t, CapReturn(n[t], call[t].maxsize))
    /\ pc' = Set(pc, t, "done")
    /\ UNCHANGED <<lk, globals, call, cursor, n, start, nsteps, bufs, offset, guard>>

\* ==================================================== growable capture
\* lines 108-109: jl_array_grow_end(ip, maxincr), and sp when asked for.
jl_array_grow_end(t) ==
    /\ pc[t] = "grow"
    /\ ~Crashed
    /\ ip' = Set(ip, t, ip[t] \o Fill(call[t].maxincr, Uninit))
    /\ sp' = Set(sp, t, IF call[t].returnsp
                        THEN sp[t] \o Fill(call[t].maxincr, Uninit) ELSE sp[t])
    /\ pc' = Set(pc, t, "stepn_enter")
    /\ UNCHANGED <<lk, globals, call, cursor, n, start, nsteps, offset, ret, guard>>

\* lines 110-113: offset += maxincr; while (n > maxincr).
jl_backtrace_from_here_loop(t) ==
    /\ pc[t] = "stepn_ret"
    /\ ~Crashed
    /\ IsGrowable(call[t].kind)
    /\ offset' = Set(offset, t, offset[t] + call[t].maxincr)
    /\ pc' = Set(pc, t, IF MoreChunks(n[t], call[t].maxincr) THEN "grow" ELSE "trim")
    /\ UNCHANGED <<lk, globals, call, cursor, n, start, nsteps, bufs, ret, guard>>

\* lines 114-119: jl_array_del_end(ip, maxincr - n), and sp; bt is returned.
jl_array_del_end(t) ==
    /\ pc[t] = "trim"
    /\ ~Crashed
    /\ ip' = Set(ip, t, DelEnd(ip[t], TrimCount(n[t], call[t].maxincr)))
    /\ sp' = Set(sp, t, IF call[t].returnsp
                        THEN DelEnd(sp[t], TrimCount(n[t], call[t].maxincr))
                        ELSE sp[t])
    /\ pc' = Set(pc, t, "done")
    /\ UNCHANGED <<lk, globals, call, cursor, n, start, nsteps, offset, ret, guard>>

\* ============================================================= return
\* The caller has the result; the thread is free for its next call.
Return(t) ==
    /\ pc[t] = "done"
    /\ ~Crashed
    /\ call[t].data = "caller"
    /\ pc' = Set(pc, t, "idle")
    /\ call' = Set(call, t, NoCall)
    /\ cursor' = Set(cursor, t, 0)
    /\ n' = Set(n, t, 0)
    /\ start' = Set(start, t, 0)
    /\ nsteps' = Set(nsteps, t, 0)
    /\ ip' = Set(ip, t, <<>>)
    /\ sp' = Set(sp, t, <<>>)
    /\ offset' = Set(offset, t, 0)
    /\ ret' = Set(ret, t, 0)
    /\ old_buf' = Set(old_buf, t, "NULL")
    /\ frames' = Set(frames, t, <<>>)
    /\ rs' = Set(rs, t, <<>>)
    /\ out' = Set(out, t, <<>>)
    /\ freed' = Set(freed, t, <<>>)
    /\ served' = Set(served, t, <<>>)
    /\ cbs' = Set(cbs, t, {})
    /\ UNCHANGED <<globals, jl_safe_restore, gc_safe>>

\* =========================================================== snapshot
\* The snapshot is repopulated by a capture into jl_bt_data whose count is
\* then stored in jl_bt_size (data first, length last).  The walk is that
\* of rec_backtrace with data = jl_bt_data and maxsize = MaxBt.
Repopulate(t, D, G, quiet) ==
    /\ pc[t] = "idle"
    /\ Len(history) <= G
    /\ \E e \in Envs(backend, D) :
        /\ WalkOk("rec_backtrace", e)
        /\ quiet => Undisturbed(e)
        /\ EnterCapture(t, "rec_backtrace", MaxBt, e, FALSE, "jl_bt_data")

\* jl_bt_size = the count the capture returned; the snapshot is complete.
Publish(t) ==
    /\ pc[t] = "done"
    /\ ~Crashed
    /\ call[t].data = "jl_bt_data"
    /\ jl_bt_size' = ret[t]
    /\ history' = Append(history, SubSeq(jl_bt_data, 1, ret[t]))
    /\ pc' = Set(pc, t, "idle")
    /\ call' = Set(call, t, NoCall)
    /\ cursor' = Set(cursor, t, 0)
    /\ n' = Set(n, t, 0)
    /\ start' = Set(start, t, 0)
    /\ nsteps' = Set(nsteps, t, 0)
    /\ ret' = Set(ret, t, 0)
    /\ old_buf' = Set(old_buf, t, "NULL")
    /\ cbs' = Set(cbs, t, {})
    /\ UNCHANGED <<lookups, config, winstate, jl_bt_data, bufs, offset, jl_safe_restore>>

\* jl_get_backtrace, lines 122-131: bt is allocated with jl_bt_size slots.
jl_get_backtrace(t) ==
    /\ pc[t] = "idle"
    /\ ~Crashed
    /\ call' = Set(call, t, [NoCall EXCEPT !.kind = "jl_get_backtrace"])
    /\ ip' = Set(ip, t, Fill(jl_bt_size, Uninit))
    /\ pc' = Set(pc, t, "gb_memcpy")
    /\ UNCHANGED <<lk, globals, cursor, n, start, nsteps, sp, offset, ret, guard>>

\* line 132: memcpy is called with jl_bt_size * sizeof(void*), read again.
jl_get_backtrace_memcpy(t) ==
    /\ pc[t] = "gb_memcpy"
    /\ ~Crashed
    /\ n' = Set(n, t, jl_bt_size)
    /\ offset' = Set(offset, t, 0)
    /\ pc' = Set(pc, t, "gb_copy")
    /\ UNCHANGED <<lk, globals, call, cursor, start, nsteps, bufs, ret, guard>>

\* What a store past the end of bt can do: corrupt the heap unnoticed, or
\* bring the process down.
MemcpyOutcomes(inside) == IF inside THEN {"store"} ELSE {"skip", "crash"}

\* line 132-134: memcpy copies word by word; then bt is returned.
jl_get_backtrace_copy(t) ==
    /\ pc[t] = "gb_copy"
    /\ ~Crashed
    /\ IF offset[t] < n[t]
       THEN \E o \in MemcpyOutcomes(offset[t] + 1 \in DOMAIN ip[t]) :
              /\ ip' = Set(ip, t, Store(ip[t], offset[t] + 1, jl_bt_data[offset[t] + 1]))
              /\ offset' = Set(offset, t, offset[t] + 1)
              /\ pc' = Set(pc, t, IF o = "crash" THEN "crashed" ELSE "gb_copy")
       ELSE /\ pc' = Set(pc, t, "done")
            /\ UNCHANGED <<ip, offset>>
    /\ UNCHANGED <<lk, globals, call, cursor, n, start, nsteps, sp, ret, guard>>

\* ================================================ code-address lookup
\* jl_frame_t as the code-info service fills it (fields read at lines
\* 363-376 and 396-407); NULL is the absent name.
NULL == "NULL"
empty_sym == ""
FrameInfos ==
    { [func_name |-> NULL, file_name |-> NULL, line |-> -1, linfo |-> NULL,
       fromC |-> TRUE, inlined |-> FALSE],
      [func_name |-> "f", file_name |-> "a.c", line |-> 5, linfo |-> NULL,
       fromC |-> TRUE, inlined |-> FALSE],
      [func_name |-> "g", file_name |-> "b.jl", line |-> 9, linfo |-> "li",
       fromC |-> FALSE, inlined |-> FALSE],
      [func_name |-> "h", file_name |-> "b.jl", line |-> 3, linfo |-> NULL,
       fromC |-> FALSE, inlined |-> TRUE],
      [func_name |-> "f", file_name |-> "a.c", line |-> -1, linfo |-> NULL,
       fromC |-> TRUE, inlined |-> FALSE],
      [func_name |-> "f", file_name |-> NULL, line |-> 5, linfo |-> NULL,
       fromC |-> TRUE, inlined |-> FALSE],
      [func_name |-> NULL, file_name |-> "a.c", line |-> 5, linfo |-> NULL,
       fromC |-> TRUE, inlined |-> FALSE] }

\* jl_getFunctionInfo(&frames, ip, skipC, noInline): zero or more
\* descriptors, innermost first; a single one when noInline is set.
ServiceResults(noInline) ==
    {<<>>} \cup { <<f>> : f \in FrameInfos }
           \cup (IF noInline THEN {}
                 ELSE { <<f, g>> : f \in {x \in FrameInfos : x.inlined},
                                   g \in {x \in FrameInfos : ~x.inlined} })

\* The addresses looked up.
Addrs == {FrameIp(1, 1), FrameIp(1, 2) - 1}

\* lines 363-366 and 368-371: the symbol stored for a name.
NameSymbol(name) == IF name # NULL THEN name ELSE empty_sym
\* line 373: the line stored.
LineValue(frame, addr) == frame.line
\* lines 361-377: the svec built for one frame.
Descriptor(frame, addr) ==
    [func |-> NameSymbol(frame.func_name),
     file |-> NameSymbol(frame.file_name),
     line |-> LineValue(frame, addr),
     linfo |-> IF frame.linfo # NULL THEN frame.linfo ELSE "nothing",
     fromC |-> frame.fromC,
     inlined |-> frame.inlined,
     ip |-> addr]

\* free(p): NULL is ignored, any other pointer is recorded.
Free(log, i, field, p) == IF p = NULL THEN log ELSE Append(log, <<i, field>>)

\* Whether a consumer enters a safepoint before it calls the code-info
\* service: line 354 does, jl_gdblookup (lines 387-391) must not touch TLS
\* and does not.
EntersSafepoint_never(kind) == FALSE
EntersSafepoint(kind) == kind = "jl_lookup_code_address"

\* jl_lookup_code_address(ip, skipC), lines 351-354: frames = NULL and
\* jl_gc_safe_enter().
jl_lookup_code_address(t) ==
    /\ pc[t] = "idle"
    /\ ~Crashed
    /\ \E a \in Addrs, skip \in BOOLEAN :
         call' = Set(call, t, [NoCall EXCEPT !.kind = "jl_lookup_code_address",
                                              !.addr = a, !.skipC = skip])
    /\ gc_safe' = Set(gc_safe, t, EntersSafepoint("jl_lookup_code_address"))
    /\ pc' = Set(pc, t, "lk_info")
    /\ UNCHANGED <<globals, cursor, n, start, nsteps, bufs, offset, ret, guard,
                   frames, rs, out, freed, served, cbs>>

\* jl_gdblookup(ip), lines 385-390: no safepoint is entered.
jl_gdblookup(t) ==
    /\ pc[t] = "idle"
    /\ ~Crashed
    /\ \E a \in Addrs :
         call' = Set(call, t, [NoCall EXCEPT !.kind = "jl_gdblookup", !.addr = a])
    /\ gc_safe' = Set(gc_safe, t, EntersSafepoint("jl_gdblookup"))
    /\ pc' = Set(pc, t, "gdb_info")
    /\ UNCHANGED <<globals, cursor, n, start, nsteps, bufs, offset, ret, guard,
                   frames, rs, out, freed, served, cbs>>

\* lines 355 and 391: the code-info service returns its descriptors.
jl_getFunctionInfo(t) ==
    /\ pc[t] \in {"lk_info", "gdb_info"}
    /\ ~Crashed
    /\ \E r \in ServiceResults(pc[t] = "gdb_info") :
         /\ frames' = Set(frames, t, r)
         /\ served' = Set(served, t, Append(served[t], [addr |-> call[t].addr, frames |-> r]))
    /\ n' = Set(n, t, 0)
    /\ pc' = Set(pc, t, IF pc[t] = "lk_info" THEN "lk_leave" ELSE "gdb_loop")
    /\ UNCHANGED <<globals, call, cursor, start, nsteps, bufs, offset, ret, guard,
                   rs, gc_safe, out, freed, cbs>>

\* lines 356-358: jl_gc_safe_leave(gc_state); rs = jl_alloc_svec(n).
jl_gc_safe_leave(t) ==
    /\ pc[t] = "lk_leave"
    /\ ~Crashed
    /\ gc_safe' = Set(gc_safe, t, FALSE)
    /\ rs' = Set(rs, t, <<>>)
    /\ pc' = Set(pc, t, "lk_loop")
    /\ UNCHANGED <<globals, call, cursor, n, start, nsteps, bufs, offset, ret, guard,
                   frames, out, freed, served, cbs>>

\* lines 359-381: one descriptor per frame, the names freed; then
\* free(frames) and rs is returned.
jl_lookup_code_address_loop(t) ==
    /\ pc[t] = "lk_loop"
    /\ ~Crashed
    /\ IF n[t] < Len(frames[t])
       THEN LET i == n[t] + 1
                frame == frames[t][i]
            IN /\ rs' = Set(rs, t, Append(rs[t], Descriptor(frame, call[t].addr)))
               /\ freed' = Set(freed, t,
                      Free(Free(freed[t], i, "func_name", frame.func_name),
                           i, "file_name", frame.file_name))
               /\ n' = Set(n, t, i)
               /\ UNCHANGED pc
       ELSE /\ freed' = Set(freed, t, Append(freed[t], <<0, "frames">>))
            /\ pc' = Set(pc, t, "done")
            /\ UNCHANGED <<rs, n>>
    /\ UNCHANGED <<globals, call, cursor, start, nsteps, bufs, offset, ret, guard,
                   frames, gc_safe, out, served, cbs>>

\* lines 396-408: the line printed for one frame.
PrintedLine(frame, addr) ==
    IF frame.func_name = NULL
    THEN [form |-> "unknown function (ip: %p)", func |-> NULL, file |-> NULL,
          line |-> addr]
    ELSE IF frame.line # -1
    THEN [form |-> "%s at %s:%lu", func |-> frame.func_name,
          file |-> frame.file_name, line |-> frame.line]
    ELSE [form |-> "%s at %s (unknown line)", func |-> frame.func_name,
          file |-> frame.file_name, line |-> -1]

\* Where jl_gdblookup returns to: its caller, or the loop of jlbacktrace.
AfterGdblookup(kind) == IF kind = "jlbacktrace" THEN "bt_loop" ELSE "done"

\* lines 394-411: one line per frame; the names are freed only when the
\* function name is present; then free(frames).
jl_gdblookup_loop(t) ==
    /\ pc[t] = "gdb_loop"
    /\ ~Crashed
    /\ IF n[t] < Len(frames[t])
       THEN LET i == n[t] + 1
                frame == frames[t][i]
            IN /\ out' = Set(out, t, Append(out[t], PrintedLine(frame, call[t].addr)))
               /\ freed' = Set(freed, t,
                      IF frame.func_name = NULL THEN freed[t]
                      ELSE Free(Free(freed[t], i, "func_name", frame.func_name),
                                i, "file_name", frame.file_name))
               /\ n' = Set(n, t, i)
               /\ UNCHANGED pc
       ELSE /\ freed' = Set(freed, t, Append(freed[t], <<0, "frames">>))
            /\ pc' = Set(pc, t, AfterGdblookup(call[t].kind))
            /\ UNCHANGED <<out, n>>
    /\ UNCHANGED <<globals, call, cursor, start, nsteps, bufs, offset, ret, guard,
                   frames, rs, gc_safe, served, cbs>>

\* jlbacktrace, line 415: n = jl_bt_size.
jlbacktrace(t) ==
    /\ pc[t] = "idle"
    /\ ~Crashed
    /\ call' = Set(call, t, [NoCall EXCEPT !.kind = "jlbacktrace"])
    /\ ret' = Set(ret, t, jl_bt_size)
    /\ offset' = Set(offset, t, 0)
    /\ pc' = Set(pc, t, "bt_loop")
    /\ UNCHANGED <<lk, globals, cursor, n, start, nsteps, bufs, guard>>

\* lines 416-417: jl_gdblookup(jl_bt_data[i] - 1) for i < n.  ip[t] keeps the
\* words read from jl_bt_data.
jlbacktrace_loop(t) ==
    /\ pc[t] = "bt_loop"
    /\ ~Crashed
    /\ IF offset[t] < ret[t]
       THEN LET word == IF offset[t] + 1 \in DOMAIN jl_bt_data
                        THEN jl_bt_data[offset[t] + 1] ELSE Uninit
            IN /\ call' = Set(call, t, [call[t] EXCEPT !.addr = word - 1])
               /\ ip' = Set(ip, t, Append(ip[t], word))
               /\ offset' = Set(offset, t, offset[t] + 1)
               /\ freed' = Set(freed, t, <<>>)
               /\ pc' = Set(pc, t, "gdb_info")
       ELSE /\ pc' = Set(pc, t, "done")
            /\ UNCHANGED <<call, ip, offset, freed>>
    /\ UNCHANGED <<globals, cursor, n, start, nsteps, sp, ret, guard,
                   frames, rs, gc_safe, out, served, cbs>>

\* =================================================== specifications
\* The steps of a walk, shared by every specification.
WalkSteps(t) ==
    \/ jl_unw_init(t)
    \/ jl_unw_init_refresh(t)
    \/ jl_unw_init_refreshed(t)
    \/ jl_unw_init_walk(t)
    \/ jl_unw_init_walked(t)
    \/ jl_unw_stepn_enter(t)
    \/ jl_unw_stepn_full(t)
    \/ jl_unw_step(t)
    \/ jl_unw_step_win64(t)
    \/ SymGetModuleBase64(t)
    \/ JuliaFunctionTableAccess64(t)
    \/ SymFunctionTableAccess64(t)
    \/ RtlVirtualUnwind(t)
    \/ UnwindNoFpo(t)
    \/ jl_unw_stepn_post(t)
    \/ jl_unw_stepn_recover(t)
    \/ jl_unw_stepn_exit(t)

Walk(t) ==
    \/ WalkSteps(t)
    \/ Return(t)

\* One thread calling the capture functions one after the other.
Next ==
    \/ rec_backtrace_ctx(1, MaxDepth, MaxCap)
    \/ rec_backtrace(1, MaxDepth, MaxCap)
    \/ rec_backtrace_ctx_dwarf(1, MaxDepth, MaxCap)
    \/ jl_backtrace_from_here(1, GrowDepth, MaxIncr)
    \/ rec_backtrace_ctx_return(1)
    \/ jl_array_grow_end(1)
    \/ jl_backtrace_from_here_loop(1)
    \/ jl_array_del_end(1)
    \/ Walk(1)

Spec == Init /\ [][Next]_vars

\* The steps of a bounded capture that meets no platform event.
QuietSteps(t) ==
    \/ jl_unw_init(t)
    \/ jl_unw_init_refresh(t)
    \/ jl_unw_init_refreshed(t)
    \/ jl_unw_init_walk(t)
    \/ jl_unw_init_walked(t)
    \/ jl_unw_stepn_enter(t)
    \/ jl_unw_stepn_full(t)
    \/ jl_unw_step(t)
    \/ jl_unw_step_win64(t)
    \/ SymGetModuleBase64(t)
    \/ JuliaFunctionTableAccess64(t)
    \/ SymFunctionTableAccess64(t)
    \/ RtlVirtualUnwind(t)
    \/ UnwindNoFpo(t)
    \/ jl_unw_stepn_post(t)
    \/ jl_unw_stepn_exit(t)
    \/ rec_backtrace_ctx_return(t)

\* One thread that captures, repopulates the snapshot and reads it back.
NextSnap ==
    \/ rec_backtrace_ctx(1, SnapDepth, MaxBt)
    \/ rec_backtrace(1, SnapDepth, MaxBt)
    \/ rec_backtrace_ctx_dwarf(1, SnapDepth, MaxBt)
    \/ jl_backtrace_from_here(1, SnapDepth, MaxBt)
    \/ rec_backtrace_ctx_return(1)
    \/ jl_array_grow_end(1)
    \/ jl_backtrace_from_here_loop(1)
    \/ jl_array_del_end(1)
    \/ Repopulate(1, SnapDepth, MaxGen, TRUE)
    \/ Publish(1)
    \/ jl_get_backtrace(1)
    \/ jl_get_backtrace_memcpy(1)
    \/ jl_get_backtrace_copy(1)
    \/ Walk(1)

SpecSnap == Init /\ [][NextSnap]_vars

\* Thread 1 reads the snapshot while thread 2 repopulates it.
NextRace ==
    \/ jl_get_backtrace(1)
    \/ jl_get_backtrace_memcpy(1)
    \/ jl_get_backtrace_copy(1)
    \/ jlbacktrace(1)
    \/ jlbacktrace_loop(1)
    \/ jl_getFunctionInfo(1)
    \/ jl_gdblookup_loop(1)
    \/ Return(1)
    \/ Repopulate(2, RaceDepth, RaceGen, TRUE)
    \/ Publish(2)
    \/ QuietSteps(2)

SpecRace == Init /\ [][NextRace]_vars

\* rec_backtrace_ctx on a stack that is walked without any platform event.
ConcurrentCapture(t, D, C) ==
    /\ pc[t] = "idle"
    /\ \E c \in 1..C, e \in Envs(backend, D) :
        /\ WalkOk("rec_backtrace_ctx", e)
        /\ Undisturbed(e)
        /\ EnterCapture(t, "rec_backtrace_ctx", c, e, FALSE, "caller")

\* Two threads capture their own stacks at the same time.
NextConc ==
    \/ ConcurrentCapture(1, ConcDepth, ConcCap)
    \/ ConcurrentCapture(2, ConcDepth, ConcCap)
    \/ QuietSteps(1)
    \/ QuietSteps(2)
    \/ Return(1)
    \/ Return(2)

SpecConc == Init /\ [][NextConc]_vars

\* Thread 1 captures while thread 2 walks a short stack of its own, so that
\* the callbacks of one run while the other holds jl_in_stackwalk.
NextCallback ==
    \/ ConcurrentCapture(1, CbDepth, CbCap)
    \/ ConcurrentCapture(2, PeerDepth, PeerDepth)
    \/ QuietSteps(1)
    \/ QuietSteps(2)
    \/ Return(1)
    \/ Return(2)

SpecCallback == Init /\ [][NextCallback]_vars

\* One thread looking up code addresses.
NextLookup ==
    \/ jl_lookup_code_address(1)
    \/ jl_gdblookup(1)
    \/ jl_getFunctionInfo(1)
    \/ jl_gc_safe_leave(1)
    \/ jl_lookup_code_address_loop(1)
    \/ jl_gdblookup_loop(1)
    \/ Return(1)

SpecLookup == Init /\ [][NextLookup]_vars

\* One thread that stores a snapshot and prints it.
NextPrint ==
    \/ Repopulate(1, RaceDepth, MaxGen, TRUE)
    \/ Publish(1)
    \/ QuietSteps(1)
    \/ jlbacktrace(1)
    \/ jlbacktrace_loop(1)
    \/ jl_gdblookup(1)
    \/ jl_getFunctionInfo(1)
    \/ jl_gdblookup_loop(1)
    \/ Return(1)

SpecPrint == Init /\ [][NextPrint]_vars

\* ==================================================== claims under Spec
\* A walk that meets no invalid memory read and no failing register read.
FaultFree(c) == c.evKind \in {"none", "stop"}
\* The last frame the backend resolves on a fault-free walk.
LastFrame(c) == IF c.evKind = "stop" THEN c.evAt ELSE c.depth
\* The slots of the window jl_unw_stepn was given that hold a stored frame.
Recorded(t) ==
    Cardinality({i \in 1..call[t].maxsize :
        /\ offset[t] + i \in DOMAIN ip[t]
        /\ ip[t][offset[t] + i] # Uninit})
InWalk(t) == IsCapture(call[t].kind) /\ call[t].data = "caller"

C2_Original ==
    \A t \in Threads :
        ( /\ pc[t] = "done" /\ IsBounded(call[t].kind) /\ InWalk(t)
          /\ InitOk(backend, call[t]) /\ Undisturbed(call[t]) ) =>
            ret[t] = IF call[t].depth <= call[t].maxsize
                     THEN Min(call[t].depth, call[t].maxsize)
                     ELSE call[t].maxsize + 1

\* C2 as amended: bounded capture from a context of depth d with capacity c
\* returns min(d, c): d when d <= c, and c, not c+1, when d > c.
C2_BoundedCount ==
    \A t \in Threads :
        ( /\ pc[t] = "done" /\ IsBounded(call[t].kind) /\ InWalk(t)
          /\ InitOk(backend, call[t]) /\ Undisturbed(call[t]) ) =>
            ret[t] = Min(call[t].depth, call[t].maxsize)

C2_Witness ==
    \E t \in Threads :
        /\ pc[t] = "done" /\ IsBounded(call[t].kind) /\ InWalk(t)
        /\ InitOk(backend, call[t]) /\ Undisturbed(call[t])
        /\ call[t].depth > call[t].maxsize /\ call[t].maxsize >= 2
        /\ n[t] = call[t].maxsize + 1 /\ ret[t] = call[t].maxsize

\* C3: the count bounded capture returns never exceeds maxsize, whatever the
\* depth, the capacity and the place of a fault.
C3_NeverAboveCapacity ==
    \A t \in Threads :
        (pc[t] = "done" /\ IsBounded(call[t].kind) /\ InWalk(t)) =>
            ret[t] <= call[t].maxsize

C3_Witness ==
    \E t \in Threads :
        /\ pc[t] = "done" /\ call[t].kind = "rec_backtrace_ctx_dwarf"
        /\ call[t].evKind = "fault" /\ call[t].evAt > call[t].maxsize
        /\ call[t].maxsize >= 1 /\ ret[t] = call[t].maxsize

\* C4: growable capture from a context of depth d returns exactly d frames
\* whatever the increment: it extends while jl_unw_stepn returns more than
\* the increment and then trims to the exact count.
C4_GrowableExact ==
    \A t \in Threads :
        ( /\ IsGrowable(call[t].kind) /\ InitOk(backend, call[t])
          /\ Undisturbed(call[t]) ) =>
            /\ (pc[t] = "done" => Len(ip[t]) = call[t].depth)
            /\ (pc[t] = "trim" =>
                    /\ n[t] <= call[t].maxincr
                    /\ Len(ip[t]) = offset[t]
                    /\ offset[t] - call[t].maxincr + n[t] = call[t].depth)
            /\ (pc[t] = "grow" /\ offset[t] > 0 =>
                    /\ n[t] = call[t].maxincr + 1
                    /\ offset[t] < call[t].depth)

C4_Witness ==
    \E t \in Threads :
        /\ pc[t] = "done" /\ IsGrowable(call[t].kind) /\ InitOk(backend, call[t])
        /\ Undisturbed(call[t])
        /\ call[t].depth = 10 * call[t].maxincr
        /\ Len(ip[t]) = call[t].depth

\* The fault of the walk happens in a step of the jl_unw_stepn invocation
\* that has just returned: in its step number FaultStep(t).
FaultStep(t) == call[t].evAt - start[t] + 1
FaultTaken(t) ==
    /\ call[t].evKind = "fault"
    /\ FaultStep(t) >= 1
    /\ FaultStep(t) <= call[t].maxsize

\* C5 as claimed, on the builds that have the recovery path the claim speaks
\* of: a fault in step k of a bounded capture never crashes the process and
\* the walk yields exactly k-1 frames.
C5_Original ==
    \A t \in Threads :
        HasSafeRestore(backend) =>
            /\ pc[t] # "crashed"
            /\ ( /\ pc[t] = "done" /\ IsBounded(call[t].kind) /\ InWalk(t)
                 /\ InitOk(backend, call[t]) /\ FaultTaken(t) ) =>
                    ret[t] = call[t].evAt - 1

\* C5 as amended: where the recovery path is compiled (every backend but the
\* Windows ones) a fault in step k does not crash the process; control
\* reaches the recovery path, which backs off one more frame: jl_unw_stepn
\* returns k-2 for k >= 2 and 0 for k = 1 (k counted within the invocation),
\* and so does bounded capture.
C5_FaultBacksOff ==
    \A t \in Threads :
        HasSafeRestore(backend) =>
            /\ pc[t] # "crashed"
            /\ (pc[t] = "stepn_ret" /\ InWalk(t) /\ FaultTaken(t)) =>
                    n[t] = Max(FaultStep(t) - 2, 0)
            /\ ( /\ pc[t] = "done" /\ IsBounded(call[t].kind) /\ InWalk(t)
                 /\ InitOk(backend, call[t]) /\ FaultTaken(t) ) =>
                    ret[t] = Max(call[t].evAt - 2, 0)

C5_Witness ==
    \E t \in Threads :
        /\ pc[t] = "done" /\ IsBounded(call[t].kind) /\ InWalk(t)
        /\ HasSafeRestore(backend) /\ InitOk(backend, call[t]) /\ FaultTaken(t)
        /\ call[t].evAt = 3 /\ ret[t] = 1

\* jl_unw_init returned 0 to this call.
InitFailed(t) ==
    /\ IsCapture(call[t].kind) /\ call[t].data = "caller"
    /\ ~InitOk(backend, call[t])
    /\ pc[t] \notin {"init", "init_refresh", "init_walk", "init_walking"}

\* C6: when init fails both capture modes report zero frames and nothing
\* else happens: rec_backtrace_ctx returns 0 and has stored nothing in the
\* caller's buffer, jl_backtrace_from_here returns empty buffers, and
\* jl_unw_step was never called.
C6_InitFailure ==
    \A t \in Threads :
        InitFailed(t) =>
            /\ pc[t] = "done"
            /\ nsteps[t] = 0
            /\ IsBounded(call[t].kind) =>
                    /\ ret[t] = 0
                    /\ ip[t] = Fill(call[t].maxsize, Uninit)
            /\ IsGrowable(call[t].kind) => ip[t] = <<>> /\ sp[t] = <<>>

C6_Witness ==
    \E t \in Threads :
        /\ InitFailed(t) /\ backend = "arm" /\ pc[t] = "done"
        /\ call[t].kind = "rec_backtrace_ctx" /\ call[t].maxsize = 2

\* ================================================ claims under SpecSnap
\* A call that is bound to leave the snapshot alone: a capture into the
\* caller's own buffer, or the reader jl_get_backtrace.
LeavesSnapshot(c) ==
    \/ IsCapture(c.kind) /\ c.data = "caller"
    \/ c.kind = "jl_get_backtrace"

\* C7: no step of a bounded capture (rec_backtrace, rec_backtrace_ctx), of a
\* growable capture (jl_backtrace_from_here) or of jl_get_backtrace changes
\* jl_bt_data or jl_bt_size, whichever path the call takes (normal, truncated,
\* fault, init failure).
C7_SnapshotUntouched ==
    [][(\E t \in Threads : LeavesSnapshot(call[t]) \/ LeavesSnapshot(call'[t]))
          => UNCHANGED <<jl_bt_data, jl_bt_size>>]_vars

\* A capture that met a fault has returned frames while a snapshot of
\* MaxBt frames was stored.
C7_Witness ==
    /\ pc[1] = "done"
    /\ IsCapture(call[1].kind)
    /\ call[1].data = "caller"
    /\ call[1].evKind = "fault"
    /\ nsteps[1] > 1
    /\ jl_bt_size = MaxBt
    /\ jl_bt_data[1] # 0

\* ================================================ claims under SpecRace
\* No repopulation is under way.
SnapshotQuiet == \A u \in Threads : call[u].data # "jl_bt_data"

\* C8: a reader (jl_get_backtrace, jlbacktrace) that ran while the snapshot
\* was repopulated ends without a fault and with the length and contents of
\* one published snapshot, the old one or the new one.
C8_Original ==
    \A t \in Threads :
        call[t].kind \in {"jl_get_backtrace", "jlbacktrace"} =>
            /\ pc[t] # "crashed"
            /\ (pc[t] = "done" /\ SnapshotQuiet) =>
                   \E g \in DOMAIN history : ip[t] = history[g]

\* ================================================ claims under SpecConc
\* What an undisturbed rec_backtrace_ctx returns when it runs alone.
AloneCount(c) == IF InitOk(backend, c) THEN Min(c.depth, c.maxsize) ELSE 0
AloneFrames(t, c) ==
    [i \in 1..c.maxsize |-> IF i <= AloneCount(c) THEN FrameIp(t, i) ELSE Uninit]

\* C9: of two captures running at the same time on two threads, each returns
\* the count and the frames it returns when run alone, and the assertion on
\* jl_in_stackwalk never fails.
C9_Original ==
    \A t \in Threads :
        /\ pc[t] # "assert_failed"
        /\ (pc[t] = "done" /\ IsBounded(call[t].kind) /\ call[t].data = "caller"
                /\ Undisturbed(call[t])) =>
               /\ ret[t] = AloneCount(call[t])
               /\ ip[t] = AloneFrames(t, call[t])

\* ============================================== claims under SpecLookup
\* The code-info service has no name for the address: the one descriptor it
\* gives carries no function name.
NoName(fr) == Len(fr) = 1 /\ fr[1].func_name = NULL

\* C10: jl_lookup_code_address of an address the service has no name for
\* returns exactly one descriptor, with the placeholder symbol as function
\* and file name and the address as line; and no descriptor it returns has an
\* absent function or file name.
C10_Original ==
    \A t \in Threads :
        (pc[t] = "done" /\ call[t].kind = "jl_lookup_code_address") =>
            /\ NoName(frames[t]) =>
                   /\ Len(rs[t]) = 1
                   /\ rs[t][1].func = empty_sym
                   /\ rs[t][1].file = empty_sym
                   /\ rs[t][1].line = call[t].addr
            /\ \A i \in DOMAIN rs[t] : rs[t][i].func # NULL /\ rs[t][i].file # NULL

\* =============================================== claims under SpecPrint
\* The line the printer is to emit for one descriptor.
ClaimedLine(frame, addr) ==
    CASE frame.func_name = NULL ->
           [form |-> "unknown function (ip: %p)", func |-> NULL, file |-> NULL,
            line |-> addr]
      [] frame.func_name # NULL /\ frame.line = -1 ->
           [form |-> "%s at %s (unknown line)", func |-> frame.func_name,
            file |-> frame.file_name, line |-> -1]
      [] OTHER ->
           [form |-> "%s at %s:%lu", func |-> frame.func_name,
            file |-> frame.file_name, line |-> frame.line]

\* The lines the printer is to emit for one address: one per descriptor, or
\* the unknown-function line when there is no descriptor.
ClaimedLines(e) ==
    IF e.frames = <<>>
    THEN << [form |-> "unknown function (ip: %p)", func |-> NULL, file |-> NULL,
             line |-> e.addr] >>
    ELSE [i \in 1..Len(e.frames) |-> ClaimedLine(e.frames[i], e.addr)]

RECURSIVE ClaimedOutput(_)
ClaimedOutput(sv) ==
    IF sv = <<>> THEN <<>> ELSE ClaimedLines(Head(sv)) \o ClaimedOutput(Tail(sv))

\* C11: jlbacktrace looks up every word of the snapshot, in order, at ip-1,
\* and the printer emits for each address one line per descriptor
\* ('function at file:line', or 'function at file (unknown line)'), or the
\* line 'unknown function (ip: address)' when no descriptor is found; an
\* address without descriptor does not stop the following ones.
C11_Original ==
    \A t \in Threads :
        (pc[t] = "done" /\ call[t].kind \in {"jlbacktrace", "jl_gdblookup"}) =>
            /\ call[t].kind = "jlbacktrace" =>
                   /\ Len(served[t]) = jl_bt_size
                   /\ \A i \in 1..Len(served[t]) : served[t][i].addr = jl_bt_data[i] - 1
            /\ out[t] = ClaimedOutput(served[t])

\* ============================================ further claims under Spec
\* Thread t is inside a jl_unw_step call of its jl_unw_stepn.
InStep(t) ==
    pc[t] \in {"loop", "gmb_sym", "fta", "fta_sym", "unwind_fe", "unwind_nofe"}

\* C12 as claimed: during every step call jl_safe_restore points to the
\* invocation's own buffer, and when jl_unw_stepn returns it holds the value
\* it had at entry.
C12_Original ==
    \A t \in Threads :
        /\ InStep(t) => jl_safe_restore[t] = "buf"
        /\ pc[t] = "stepn_ret" => jl_safe_restore[t] = old_buf[t]

\* C12: on the builds that compile the guard (all but Windows), during every
\* step call jl_safe_restore points to the invocation's own jump buffer, and
\* when jl_unw_stepn returns (no more frames, capacity reached, or through
\* the recovery path) it holds the value it had at entry.
C12_GuardScoped ==
    HasSafeRestore(backend) =>
        \A t \in Threads :
            /\ InStep(t) => jl_safe_restore[t] = "buf"
            /\ pc[t] = "stepn_ret" =>
                   /\ jl_safe_restore[t] = old_buf[t]
                   /\ jl_safe_restore[t] \in {"NULL", "outer"}

\* jl_unw_stepn has returned through the recovery path to a caller that had
\* a guard of its own installed.
C12_Witness ==
    /\ pc[1] = "stepn_ret"
    /\ HasSafeRestore(backend)
    /\ call[1].evKind = "fault"
    /\ nsteps[1] > 1
    /\ jl_safe_restore[1] = "outer"

\* ============================================ claims under SpecCallback
\* Every callback invocation made so far, by any thread.
Invocations == UNION {cbs[t] : t \in Threads}

\* C13 as claimed: on both CPU variants a callback entered with
\* jl_in_stackwalk set returns 'not found' and does not call the debug
\* service.
C13_Original ==
    IsWindows(backend) =>
        \A r \in Invocations : r.flag => (~r.found /\ ~r.service)

\* C13: on the x86_64 variant a callback entered with jl_in_stackwalk set
\* never calls the debug service (SymFunctionTableAccess64 /
\* SymGetModuleBase64): it returns what RtlLookupFunctionEntry found, and
\* 'not found' (0) when that found nothing.  On the 32-bit variant the
\* callbacks do not test the flag: JuliaFunctionTableAccess64 always calls
\* SymFunctionTableAccess64, and JuliaGetModuleBase64 calls
\* SymGetModuleBase64 whenever its own tables have no answer.
C13_CallbackGuard ==
    /\ backend = "win64" =>
           \A r \in Invocations : r.flag => (~r.service /\ (r.found <=> r.hit))
    /\ backend = "win32" =>
           \A r \in Invocations :
               /\ r.cb = "JuliaFunctionTableAccess64" => r.service
               /\ r.cb = "JuliaGetModuleBase64" => (r.service <=> ~r.hit)

\* On x86_64 a callback was entered with the flag set, found nothing in the
\* Rtl tables and returned 0.
C13_Witness ==
    /\ backend = "win64"
    /\ \E r \in cbs[1] : r.flag /\ ~r.hit /\ ~r.found /\ ~r.service

\* ============================================ further claims under Spec
\* The number of entries a finished capture hands to its caller.
Returned(t) == IF IsGrowable(call[t].kind) THEN Len(ip[t]) ELSE ret[t]

\* C14: when a capture is finished, entry i of its output is the i-th frame
\* reached from the initial context, for every i up to the count it returns:
\* innermost first, no gap, no duplicate, also across the chunks of the
\* growable capture.
C14_Original ==
    \A t \in Threads :
        (pc[t] = "done" /\ InWalk(t)) =>
            \A i \in 1..Returned(t) : i \in DOMAIN ip[t] /\ ip[t][i] = FrameIp(t, i)

\* Thread t makes a jl_unw_step call in this step of the system.
StepCalled(t) == nsteps'[t] = nsteps[t] + 1

\* C15: every jl_unw_step call of a capture is handed a slot below maxsize
\* that lies inside the buffer as it is at that moment (ip, and sp when it is
\* captured), and the trim of jl_backtrace_from_here removes maxincr - n
\* entries with 0 <= maxincr - n <= length, for every depth, capacity and
\* fault position.
C15_WritesInBounds ==
    [][\A t \in Threads :
          /\ (StepCalled(t) /\ InWalk(t)) =>
                 /\ n[t] < call[t].maxsize
                 /\ Slot(offset[t], n[t]) \in DOMAIN ip[t]
                 /\ call[t].returnsp => Slot(offset[t], n[t]) \in DOMAIN sp[t]
          /\ (pc'[t] = "trim" /\ InWalk(t)) =>
                 /\ TrimCount(n'[t], call[t].maxincr) >= 0
                 /\ TrimCount(n'[t], call[t].maxincr) <= Len(ip'[t])]_vars

\* A growable capture that met a fault in a later chunk has been trimmed.
C15_Witness ==
    /\ pc[1] = "done"
    /\ IsGrowable(call[1].kind)
    /\ call[1].evKind = "fault"
    /\ call[1].returnsp
    /\ offset[1] > call[1].maxincr
    /\ Len(ip[1]) > call[1].maxincr

\* ------------------------------------------------ safepoints around the service
\* The step on which thread t calls the code-info service.
ServiceCalled(t) == Len(served'[t]) = Len(served[t]) + 1

\* C16 as stated: every call of jl_getFunctionInfo, in jl_lookup_code_address
\* and in jl_gdblookup alike, is made inside a safepoint that was entered
\* before the call and is left after it.
C16_Original ==
    [][\A t \in Threads : ServiceCalled(t) => gc_safe[t] /\ gc_safe'[t]]_vars

\* C16 amended: the call made by jl_lookup_code_address is inside a safepoint
\* that is entered before it and left before the descriptors are built; the
\* call made by jl_gdblookup (also under jlbacktrace) is made with no
\* safepoint entered.
C16_SafepointBracket ==
    [][\A t \in Threads :
          /\ ServiceCalled(t) =>
                 IF call[t].kind = "jl_lookup_code_address"
                 THEN gc_safe[t] /\ gc_safe'[t]
                 ELSE ~gc_safe[t] /\ ~gc_safe'[t]
          /\ pc'[t] \in {"lk_loop", "done"} => ~gc_safe'[t]]_vars
C16_Witness ==
    /\ pc[1] = "done" /\ call[1].kind = "jl_lookup_code_address"
    /\ Len(served[1]) = 1 /\ Len(rs[1]) = 2 /\ ~gc_safe[1]

\* ------------------------------------------------ counted entries are written
\* The count jl_unw_stepn returns, capped at the capacity it was given.
Counted(t) == IF n[t] > call[t].maxsize THEN call[t].maxsize ELSE n[t]

\* C19: when jl_unw_stepn returns, every slot below the count it returns
\* (capped at maxsize) holds a value that a jl_unw_step call of this
\* invocation stored there, whether the last step failed before it read the
\* registers, or the recovery path was taken, or neither.
C19_Original ==
    \A t \in Threads :
        (pc[t] = "stepn_ret" /\ InWalk(t)) =>
            \A i \in 1..Counted(t) :
                /\ offset[t] + i \in DOMAIN ip[t]
                /\ ip[t][offset[t] + i] # Uninit

\* ------------------------------------------------ the stack-pointer buffer
\* Entry i of both buffers of thread t was stored from one frame of the walk.
SameFrame(t, i) ==
    \E p \in 0..call[t].depth : ip[t][i] = FrameIp(t, p) /\ sp[t][i] = FrameSp(t, p)

\* C17: while jl_backtrace_from_here runs with returnsp set, after every
\* growth step and after the trim the sp buffer is as long as the ip buffer,
\* and in the result entry i of both buffers comes from the same frame.
C17_Original ==
    \A t \in Threads :
        (IsGrowable(call[t].kind) /\ call[t].returnsp /\ InWalk(t)) =>
            /\ Len(sp[t]) = Len(ip[t])
            /\ pc[t] = "done" => \A i \in 1..Len(ip[t]) : SameFrame(t, i)

\* ------------------------------------------------ release of service memory
\* What the code-info service allocated for the answer fr: the descriptor
\* array when there is a descriptor, and every name that is present.
Allocated(fr) ==
    {<<0, "frames">> : i \in DOMAIN fr}
      \cup {<<i, "func_name">> : i \in {j \in DOMAIN fr : fr[j].func_name # NULL}}
      \cup {<<i, "file_name">> : i \in {j \in DOMAIN fr : fr[j].file_name # NULL}}
\* How often x was handed to free.
TimesFreed(log, x) == Cardinality({k \in DOMAIN log : log[k] = x})

\* C18: when jl_lookup_code_address or jl_gdblookup returns, every name the
\* service allocated and the descriptor array have been freed exactly once,
\* and nothing has been freed twice, for every combination of present and
\* absent names.
C18_Original ==
    \A t \in Threads :
        (pc[t] = "done" /\ call[t].kind \in {"jl_lookup_code_address", "jl_gdblookup"}) =>
            /\ \A x \in Allocated(frames[t]) : TimesFreed(freed[t], x) = 1
            /\ \A k \in DOMAIN freed[t] : TimesFreed(freed[t], freed[t][k]) = 1

\* ------------------------------------------------ balance of the flag
\* Thread t is inside a region that holds jl_in_stackwalk: the refresh of
\* lines 202-204, the StackWalk64 of lines 211-222, the loop of jl_unw_stepn
\* on the 32-bit build (lines 33-63), or a debug-service call of a callback
\* (lines 160-162, 180-182).
HoldsFlag(t) ==
    \/ pc[t] \in {"init_refresh", "init_walking", "gmb_sym", "fta_sym"}
    \/ backend = "win32" /\ pc[t] \in {"loop", "post", "stepn_exit"}
\* The flag is set only inside such a region of a process that is running.
FlagIdle == jl_in_stackwalk => \E t \in Threads : HoldsFlag(t) \/ pc[t] = "crashed"
\* Thread t runs a callback in this step that was entered with the flag set.
CallbackFoundSet(t) == \E c \in cbs'[t] \ cbs[t] : c.flag

\* C20: with one thread, jl_in_stackwalk is clear whenever no init, stepping
\* loop or callback debug-service call is in progress, so each of jl_unw_init,
\* jl_unw_stepn, JuliaFunctionTableAccess64 and JuliaGetModuleBase64 that set
\* it has cleared it when it returns; and a callback entered with the flag set
\* leaves it set (on the step where StackWalk64 returns to jl_unw_init it is
\* jl_unw_init that clears it, line 222).
C20_FlagBalanced ==
    [][/\ FlagIdle'
       /\ \A t \in Threads :
             (CallbackFoundSet(t) /\ pc[t] # "init_walking") => jl_in_stackwalk']_vars
C20_Witness ==
    /\ backend = "win32" /\ pc[1] = "stepn_ret" /\ ~jl_in_stackwalk
    /\ \E c \in cbs[1] : c.flag
    /\ call[1].maxsize > 1 /\ n[1] > 1

====
